---- MODULE Spec2Model ----
(***************************************************************************)
(* Model of pywebio/platform/httpbased.py: the HTTP long-poll session      *)
(* broker HttpHandler.  The class-level registry (_webio_sessions), the    *)
(* activity index (_webio_expire), the last-swept timestamp and the        *)
(* request handler handle_request, stepped at the granularity of its       *)
(* accesses to the shared class state.                                     *)
(***************************************************************************)
EXTENDS Integers, Sequences, FiniteSets, TLC

(* ---------------------------- bounds ----------------------------------- *)
MaxIds == 2          \* number of session ids random_str may mint
MaxTime == 5         \* last value of the clock
MaxCmds == 1         \* output commands pending in all sessions together
MaxPatterns == 2     \* length of the allowed_origins list

(* ------------------------ configuration -------------------------------- *)
\* self.session_expire_seconds / self.session_cleanup_interval (seconds,
\* scaled down from the defaults 60 and 20; any positive value is legal)
session_expire_seconds == 2
session_cleanup_interval == 1

\* time.time() of a running process is far beyond the initial value 0 of
\* _last_check_session_expire_ts
StartTime == session_cleanup_interval + 1

Threads == {1, 2}
SerialWorker == CHOOSE t \in Threads : TRUE
Ids == 1 .. MaxIds
Times == 0 .. MaxTime
Methods == {"GET", "POST", "OPTIONS", "PUT"}

\* value of the webio-session-id request header: missing, '' or an id
Absent == -1
Empty == 0
HeaderValues == {Absent, Empty} \cup Ids

\* value of the URL parameter 'test': missing (default None) or set
TestValues == {"None", "", "1"}
\* the request body: not JSON, the JSON value null, or a JSON event object
BodyValues == {"text", "null", "click"}

\* Python None for webio_session_id / webio_session
None == 0

VARIABLES
    _webio_sessions,                \* WebIOSessionID -> session object
    _webio_expire,                  \* ordered: << <<sid, last active ts>>, ... >>
    _last_check_session_expire_ts,
    clock,                          \* time.time()
    heap,                           \* the session objects: identity -> state
    minted,                         \* number of ids random_str has returned
    pc, req, resp,                  \* per handler thread
    webio_session_id, webio_session,
    popped,                         \* (sid, active_ts) of the sweeper
    sent,                           \* history: payloads given to send_client_event
    closeCalls,                     \* history: objects the broker called close() on
    closedOut,                      \* history: ids the handler removed after closed()
    arrivedLate,                    \* history: the request in flight found its session
                                    \*   idle for longer than session_expire_seconds
    check_origin, allowed_origins,  \* the origin policy given to __init__
    read_ts,                        \* per thread: time.time() as read on line 180
    judged                          \* history: the last-swept time a thread saw on
                                    \*   line 182 when it found the interval elapsed

shared == <<_webio_sessions, _webio_expire, _last_check_session_expire_ts>>
scratch == <<read_ts, judged>>
locals == <<pc, req, resp, webio_session_id, webio_session, popped, sent, scratch>>
instance == <<check_origin, allowed_origins>>
history == <<closeCalls, closedOut, arrivedLate>>
vars == <<_webio_sessions, _webio_expire, _last_check_session_expire_ts, clock,
          heap, minted, pc, req, resp, webio_session_id, webio_session,
          popped, sent, closeCalls, closedOut, arrivedLate,
          check_origin, allowed_origins, read_ts, judged>>

(* ------------------------- dict helpers -------------------------------- *)
RECURSIVE SeqRemove(_, _)
SeqRemove(s, k) ==
    IF s = << >> THEN << >>
    ELSE IF Head(s)[1] = k THEN SeqRemove(Tail(s), k)
    ELSE <<Head(s)>> \o SeqRemove(Tail(s), k)

ExpireKeys == {_webio_expire[i][1] : i \in 1 .. Len(_webio_expire)}
SessionKeys == DOMAIN _webio_sessions

ExpireTs(e, k) == e[CHOOSE i \in 1 .. Len(e) : e[i][1] = k][2]

\* LRUDict.__setitem__: store the value and move the key to the end
LRUDictSet(e, k, v) == SeqRemove(e, k) \o << <<k, v>> >>

\* OrderedDict.move_to_end(k, last=False)
MoveToFront(e, k) ==
    LET i == CHOOSE j \in 1 .. Len(e) : e[j][1] = k
    IN <<e[i]>> \o SeqRemove(e, k)

\* dict.pop(k, None) / del d[k]
DictPop(d, k) == [x \in (DOMAIN d) \ {k} |-> d[x]]
\* d[k] = v
DictSet(d, k, v) == [x \in (DOMAIN d) \cup {k} |-> IF x = k THEN v ELSE d[x]]

(* ------------------------ session objects ------------------------------ *)
\* A session object: closed flag and number of pending output commands.
\* heap maps the identity of every object still referenced to its state.
NewSession == [closed |-> FALSE, pending |-> 0]

Command == [command |-> "output"]
\* Session.get_task_commands(): the pending commands, in order
PendingCommands(s) == [i \in 1 .. s.pending |-> Command]

RECURSIVE TotalPending(_)
TotalPending(hp) ==
    IF DOMAIN hp = {} THEN 0
    ELSE LET h == CHOOSE x \in DOMAIN hp : TRUE
         IN hp[h].pending + TotalPending([x \in (DOMAIN hp) \ {h} |-> hp[x]])

\* objects referenced by the registry d or by a handler frame in w
Referenced(d, w) == {d[k] : k \in DOMAIN d} \cup {w[t] : t \in DOMAIN w}
\* an unreferenced session object is freed
Collect(hp, d, w) == [h \in (DOMAIN hp) \cap Referenced(d, w) |-> hp[h]]

(* ----------------------------- origins --------------------------------- *)
\* origins and patterns are sequences of characters
Origins == {<< >>, <<"a">>, <<"b">>, <<"a", "b">>}
Patterns == {<<"*">>, <<"a">>, <<"a", "?">>, <<"?">>}
\* the Origin request header: << >> when missing, else <<value>>
OriginHeaders == {<< >>} \cup {<<o>> : o \in Origins}
\* callables a caller may pass as check_origin
Predicates == {"any", "never", "only_b"}
CallPredicate(p, origin) ==
    CASE p = "any" -> TRUE
      [] p = "never" -> FALSE
      [] p = "only_b" -> origin = <<"b">>

\* fnmatch.fnmatch(name, pat) with the wildcards * and ?
RECURSIVE fnmatch(_, _)
fnmatch(name, pat) ==
    IF pat = << >> THEN name = << >>
    ELSE IF Head(pat) = "*" THEN
        fnmatch(name, Tail(pat)) \/ (name # << >> /\ fnmatch(Tail(name), pat))
    ELSE /\ name # << >>
         /\ (Head(pat) = "?" \/ Head(pat) = Head(name))
         /\ fnmatch(Tail(name), Tail(pat))

\* mutant: the patterns are consulted although a callable is given
CheckOrigin_Either(origin) ==
    \/ check_origin # "None" /\ CallPredicate(check_origin, origin)
    \/ \E i \in 1 .. Len(allowed_origins) : fnmatch(origin, allowed_origins[i])

\* lines 218-226: self.check_origin is the callable given, or else the match
\* against the patterns of allowed_origins (None counts as the empty list)
CheckOrigin(origin) ==
    IF check_origin # "None" THEN CallPredicate(check_origin, origin)
    ELSE \E i \in 1 .. Len(allowed_origins) : fnmatch(origin, allowed_origins[i])

\* line 121: context.request_headers().get('Origin', '')
OriginOrEmpty(r) == IF r.origin = << >> THEN << >> ELSE r.origin[1]

\* lines 119-127
_process_cors(rsp, r) ==
    IF CheckOrigin(OriginOrEmpty(r))
    THEN [rsp EXCEPT !.allow = <<OriginOrEmpty(r)>>]
    ELSE rsp

\* lines 138-144: the preflight always processes CORS, other requests when
\* request_headers.get('Origin') is true
WithCors(rsp, r) ==
    IF r.method = "OPTIONS" \/ (r.origin # << >> /\ r.origin[1] # << >>)
    THEN _process_cors(rsp, r)
    ELSE rsp

(* --------------------------- responses --------------------------------- *)
\* status, content (kind "empty" until set_content; "text" or "json"),
\* the webio-session-id response header, and the values of the
\* Access-Control-Allow-Origin response header (none or one; the other
\* Access-Control headers of lines 124-127 are set together with it)
NoResponse == [status |-> 0, kind |-> "none", text |-> "", cmds |-> << >>, sid |-> None,
               allow |-> << >>]
\* a fresh context: status 200 unless set_status is called, no content
FreshResponse == [status |-> 200, kind |-> "empty", text |-> "", cmds |-> << >>, sid |-> None,
                  allow |-> << >>]
CloseSessionReply == << [command |-> "close_session"] >>

NoRequest == [method |-> "GET", sid |-> Absent, test |-> "None", body |-> "text",
              origin |-> << >>]
\* HttpContext.request_json (lines 49-51): the deserialized body, None when
\* the body is not JSON; the JSON value null deserializes to None as well
request_json(r) == IF r.body \in {"text", "null"} THEN "None" ELSE r.body

\* the body is only consulted for POST
CorsRequests == {r \in [method : Methods, sid : HeaderValues, test : TestValues,
                        body : BodyValues, origin : OriginHeaders] :
                    r.body # "text" => r.method = "POST"}
\* requests of same-origin clients: no Origin header
Requests == {r \in CorsRequests : r.origin = << >>}

\* truth value of request_url_parameter('test')
IsProbe(r) == r.test \notin {"None", ""}

\* 'webio-session-id' not in request_headers or not request_headers[...]
NoSessionId(r) == r.sid = Absent \/ r.sid = Empty

\* the class attributes as defined and no request in flight
StartState ==
    /\ _webio_sessions = << >>
    /\ _webio_expire = << >>
    /\ _last_check_session_expire_ts = 0
    /\ clock = StartTime
    /\ heap = << >>
    /\ minted = 0
    /\ pc = [t \in Threads |-> "idle"]
    /\ req = [t \in Threads |-> NoRequest]
    /\ resp = [t \in Threads |-> NoResponse]
    /\ webio_session_id = [t \in Threads |-> None]
    /\ webio_session = [t \in Threads |-> None]
    /\ popped = [t \in Threads |-> << >>]
    /\ sent = [t \in Threads |-> << >>]
    /\ closeCalls = {}
    /\ closedOut = {}
    /\ arrivedLate = [t \in Threads |-> FALSE]
    /\ read_ts = [t \in Threads |-> 0]
    /\ judged = [t \in Threads |-> << >>]

\* lines 193-196: the handler is built with the default origin policy
Init ==
    /\ StartState
    /\ check_origin = "None"
    /\ allowed_origins = << >>

\* the values a caller may pass as allowed_origins (None counts as [])
AllowedOriginsValues ==
    UNION {[1 .. n -> Patterns] : n \in 0 .. MaxPatterns}

\* the handler is built with any origin policy
InitCors ==
    /\ StartState
    /\ check_origin \in {"None"} \cup Predicates
    /\ allowed_origins \in AllowedOriginsValues

(* ------------------------- handle_request ------------------------------ *)
\* mutant: the POST check of line 154 is missing
Classify_PostCreates(r, keys) ==
    IF r.method = "OPTIONS" THEN "preflight"
    ELSE IF IsProbe(r) THEN "probe"
    ELSE IF NoSessionId(r) THEN "create"
    ELSE IF r.sid \notin keys THEN "unknown"
    ELSE "established"

\* mutant: an id that is not registered is treated like a missing id
Classify_UnknownCreates(r, keys) ==
    IF r.method = "OPTIONS" THEN "preflight"
    ELSE IF IsProbe(r) THEN "probe"
    ELSE IF NoSessionId(r) \/ r.sid \notin keys THEN
        IF r.method = "POST" THEN "forbidden" ELSE "create"
    ELSE "established"

\* mutant: the probe is recognised only after the session has been resolved
Classify_ProbeLate(r, keys) ==
    IF r.method = "OPTIONS" THEN "preflight"
    ELSE IF NoSessionId(r) THEN
        IF r.method = "POST" THEN "forbidden" ELSE "create"
    ELSE IF r.sid \notin keys THEN "unknown"
    ELSE "established"

\* lines 138-170: the branch a request takes, decided in this order
Classify(r, keys) ==
    IF r.method = "OPTIONS" THEN "preflight"
    ELSE IF IsProbe(r) THEN "probe"
    ELSE IF NoSessionId(r) THEN
        IF r.method = "POST" THEN "forbidden" ELSE "create"
    ELSE IF r.sid \notin keys THEN "unknown"
    ELSE "established"

\* random_str(24): an id unique across all sessions
random_str == minted + 1

\* what the terminal branches put in the response (lines 140, 147, 155, 167)
TerminalResponse(branch) ==
    CASE branch = "preflight" -> [FreshResponse EXCEPT !.status = 204]
      [] branch = "probe" -> [FreshResponse EXCEPT !.kind = "text", !.text = "ok"]
      [] branch = "forbidden" -> [FreshResponse EXCEPT !.status = 403]
      [] branch = "unknown" -> [FreshResponse EXCEPT !.kind = "json",
                                                      !.cmds = CloseSessionReply]

\* mutant: a request from a rejected origin is refused
Respond_Refusing(r, branch) ==
    IF r.origin # << >> /\ ~CheckOrigin(r.origin[1])
    THEN [FreshResponse EXCEPT !.status = 403]
    ELSE WithCors(IF branch = "create" THEN [FreshResponse EXCEPT !.sid = random_str]
                  ELSE IF branch = "established" THEN FreshResponse
                  ELSE TerminalResponse(branch), r)

\* lines 138-170: the headers, status and content set before line 173
Respond(r, branch) ==
    WithCors(IF branch = "create" THEN [FreshResponse EXCEPT !.sid = random_str]
             ELSE IF branch = "established" THEN FreshResponse
             ELSE TerminalResponse(branch), r)

\* where the handler stands after the branch is taken
EntryPoint(branch) ==
    CASE branch = "create" -> "register"
      [] branch = "established" -> "lookup"
      [] OTHER -> "done"

\* lines 136-170: a request arrives and is classified
Serve(t, offered) ==
    /\ pc[t] = "idle"
    /\ \E r \in offered :
       LET branch == Classify(r, SessionKeys) IN
       /\ branch = "create" => minted < MaxIds
       /\ req' = [req EXCEPT ![t] = r]
       /\ resp' = [resp EXCEPT ![t] = Respond(r, branch)]
       /\ IF branch = "create" THEN
            /\ webio_session_id' = [webio_session_id EXCEPT ![t] = random_str]
            /\ minted' = minted + 1
            /\ heap' = DictSet(heap, minted + 1, NewSession)
            /\ webio_session' = [webio_session EXCEPT ![t] = minted + 1]
            /\ pc' = [pc EXCEPT ![t] = "register"]
          ELSE IF branch = "established" THEN
            /\ webio_session_id' = [webio_session_id EXCEPT ![t] = r.sid]
            /\ pc' = [pc EXCEPT ![t] = "lookup"]
            /\ UNCHANGED <<webio_session, heap, minted>>
          ELSE
            /\ pc' = [pc EXCEPT ![t] = "done"]
            /\ UNCHANGED <<webio_session_id, webio_session, heap, minted>>
       /\ arrivedLate' = [arrivedLate EXCEPT ![t] =
               /\ branch = "established"
               /\ r.sid \in ExpireKeys
               /\ clock > ExpireTs(_webio_expire, r.sid) + session_expire_seconds]
    /\ UNCHANGED <<instance, scratch,
                   shared, clock, popped, sent, closeCalls, closedOut>>

Dispatch(t) == Serve(t, Requests)

\* mutant: the new session is not stored
RegisterSession_Dropped(d, sid, h) == d

\* line 165: cls._webio_sessions[webio_session_id] = webio_session
RegisterSession(d, sid, h) == DictSet(d, sid, h)

Register(t) ==
    /\ pc[t] = "register"
    /\ _webio_sessions' = RegisterSession(_webio_sessions, webio_session_id[t],
                                          webio_session[t])
    /\ pc' = [pc EXCEPT ![t] = "touch"]
    /\ UNCHANGED <<instance, scratch,
                   _webio_expire, _last_check_session_expire_ts, clock, heap, minted,
                   req, resp, webio_session_id, webio_session, popped, sent, history>>

\* line 171: webio_session = cls._webio_sessions[webio_session_id]
\* (a KeyError, when the id has gone meanwhile, ends the request)
Lookup(t) ==
    /\ pc[t] = "lookup"
    /\ IF webio_session_id[t] \in SessionKeys THEN
            /\ webio_session' = [webio_session EXCEPT ![t] =
                                    _webio_sessions[webio_session_id[t]]]
            /\ pc' = [pc EXCEPT ![t] = "touch"]
            /\ resp' = resp
       ELSE
            /\ resp' = [resp EXCEPT ![t].status = 500]
            /\ pc' = [pc EXCEPT ![t] = "done"]
            /\ UNCHANGED webio_session
    /\ UNCHANGED <<instance, scratch,
                   shared, clock, heap, minted, req, webio_session_id, popped, sent,
                   history>>

\* mutant: the client event is dropped
EventsSent_Dropped(r) == << >>

\* lines 173-178: a POST whose body decodes delivers the client event
EventsSent(r) ==
    IF r.method = "POST" /\ request_json(r) # "None" THEN <<request_json(r)>> ELSE << >>

\* line 180: cls._webio_expire[webio_session_id] = time.time()
TouchIndex(e, sid, now) == LRUDictSet(e, sid, now)

\* lines 173-180: deliver the event (and sleep), then touch the index
Touch(t) ==
    /\ pc[t] = "touch"
    /\ sent' = [sent EXCEPT ![t] = EventsSent(req[t])]
    /\ _webio_expire' = TouchIndex(_webio_expire, webio_session_id[t], clock)
    /\ pc' = [pc EXCEPT ![t] = "check"]
    /\ UNCHANGED <<instance, scratch,
                   _webio_sessions, _last_check_session_expire_ts, clock, heap, minted,
                   req, resp, webio_session_id, webio_session, popped, history>>

\* lines 173-180, first half: deliver the event (and sleep), then evaluate
\* time.time() for the assignment of line 180
TouchRead(t) ==
    /\ pc[t] = "touch"
    /\ sent' = [sent EXCEPT ![t] = EventsSent(req[t])]
    /\ read_ts' = [read_ts EXCEPT ![t] = clock]
    /\ pc' = [pc EXCEPT ![t] = "touch_w"]
    /\ UNCHANGED <<instance, judged,
                   shared, clock, heap, minted,
                   req, resp, webio_session_id, webio_session, popped, history>>

\* line 180, second half: LRUDict.__setitem__ stores the value read
TouchWrite(t) ==
    /\ pc[t] = "touch_w"
    /\ _webio_expire' = TouchIndex(_webio_expire, webio_session_id[t], read_ts[t])
    /\ read_ts' = [read_ts EXCEPT ![t] = 0]
    /\ pc' = [pc EXCEPT ![t] = "check"]
    /\ UNCHANGED <<instance, judged,
                   _webio_sessions, _last_check_session_expire_ts, clock, heap, minted,
                   req, resp, webio_session_id, webio_session, popped, sent, history>>

\* mutant: every request that reaches line 182 sweeps
IntervalElapsed_Always(now, last) == TRUE

\* line 182: time.time() - cls._last_check_session_expire_ts > self.session_cleanup_interval
IntervalElapsed(now, last) == now - last > session_cleanup_interval

CheckInterval(t) ==
    /\ pc[t] = "check"
    /\ IF IntervalElapsed(clock, _last_check_session_expire_ts)
       THEN /\ pc' = [pc EXCEPT ![t] = "setlast"]
            /\ judged' = [judged EXCEPT ![t] = <<_last_check_session_expire_ts>>]
       ELSE /\ pc' = [pc EXCEPT ![t] = "fetch"]
            /\ UNCHANGED judged
    /\ UNCHANGED <<instance, read_ts,
                   shared, clock, heap, minted, req, resp, webio_session_id,
                   webio_session, popped, sent, history>>

\* line 183: cls._last_check_session_expire_ts = time.time()
SetLastCheck(t) ==
    /\ pc[t] = "setlast"
    /\ _last_check_session_expire_ts' = clock
    /\ judged' = [judged EXCEPT ![t] = << >>]
    /\ pc' = [pc EXCEPT ![t] = "sweep"]
    /\ UNCHANGED <<instance, read_ts,
                   _webio_sessions, _webio_expire, clock, heap, minted, req, resp,
                   webio_session_id, webio_session, popped, sent, history>>

(* -------------------- _remove_expired_sessions ------------------------- *)
\* mutant: every entry counts as fresh
IsFresh_Always(now, active_ts) == TRUE

\* mutant: an entry idle for exactly session_expire_seconds counts as fresh
IsFresh_AtLimit(now, active_ts) == now - active_ts <= session_expire_seconds

\* line 101: time.time() - active_ts < session_expire_seconds
IsFresh(now, active_ts) == now - active_ts < session_expire_seconds

\* lines 98-101: while cls._webio_expire: sid, active_ts = popitem(last=False),
\* then the freshness test
SweepPop(t) ==
    /\ pc[t] = "sweep"
    /\ IF _webio_expire = << >> THEN
            /\ pc' = [pc EXCEPT ![t] = "fetch"]
            /\ popped' = [popped EXCEPT ![t] = << >>]
            /\ UNCHANGED _webio_expire
       ELSE
            /\ popped' = [popped EXCEPT ![t] = Head(_webio_expire)]
            /\ _webio_expire' = Tail(_webio_expire)
            /\ IF IsFresh(clock, Head(_webio_expire)[2])
               THEN pc' = [pc EXCEPT ![t] = "requeue"]
               ELSE pc' = [pc EXCEPT ![t] = "evict"]
    /\ UNCHANGED <<instance, scratch,
                   _webio_sessions, _last_check_session_expire_ts, clock, heap, minted,
                   req, resp, webio_session_id, webio_session, sent, history>>

\* mutant: move_to_end(sid, last=False) is missing
Requeue_AtEnd(e, sid, active_ts) == LRUDictSet(e, sid, active_ts)

\* lines 103-104: cls._webio_expire[sid] = active_ts; move_to_end(sid, last=False)
Requeue(e, sid, active_ts) == MoveToFront(LRUDictSet(e, sid, active_ts), sid)

\* lines 103-105: put the fresh entry back at the front and stop
SweepRequeue(t) ==
    /\ pc[t] = "requeue"
    /\ _webio_expire' = Requeue(_webio_expire, popped[t][1], popped[t][2])
    /\ popped' = [popped EXCEPT ![t] = << >>]
    /\ pc' = [pc EXCEPT ![t] = "fetch"]
    /\ UNCHANGED <<instance, scratch,
                   _webio_sessions, _last_check_session_expire_ts, clock, heap, minted,
                   req, resp, webio_session_id, webio_session, sent, history>>

\* mutant: the expired session is deleted without close()
CloseExpired_Skipped(hp, h) == hp

\* line 111: session.close()
CloseExpired(hp, h) == [hp EXCEPT ![h].closed = TRUE]

\* lines 109-112: close and delete the expired session, then loop
SweepEvict(t) ==
    /\ pc[t] = "evict"
    /\ LET sid == popped[t][1] IN
       IF sid \in SessionKeys THEN
            /\ heap' = CloseExpired(heap, _webio_sessions[sid])
            /\ closeCalls' = closeCalls \cup {_webio_sessions[sid]}
            /\ _webio_sessions' = DictPop(_webio_sessions, sid)
       ELSE UNCHANGED <<heap, closeCalls, _webio_sessions>>
    /\ pc' = [pc EXCEPT ![t] = "sweep"]
    /\ UNCHANGED <<instance, scratch,
                   _webio_expire, _last_check_session_expire_ts, clock, minted,
                   req, resp, webio_session_id, webio_session, popped, sent, closedOut,
                   arrivedLate>>

(* ------------------- handle_request, continued ------------------------- *)
\* line 186: context.set_content(webio_session.get_task_commands(), json_type=True)
Fetch(t) ==
    /\ pc[t] = "fetch"
    /\ resp' = [resp EXCEPT ![t].kind = "json",
                            ![t].cmds = PendingCommands(heap[webio_session[t]])]
    /\ heap' = [heap EXCEPT ![webio_session[t]].pending = 0]
    /\ pc' = [pc EXCEPT ![t] = "closed"]
    /\ UNCHANGED <<instance, scratch,
                   shared, clock, minted, req, webio_session_id, webio_session,
                   popped, sent, history>>

\* line 188: if webio_session.closed()
CheckClosed(t) ==
    /\ pc[t] = "closed"
    /\ IF heap[webio_session[t]].closed
       THEN pc' = [pc EXCEPT ![t] = "rm_session"]
       ELSE pc' = [pc EXCEPT ![t] = "done"]
    /\ UNCHANGED <<instance, scratch,
                   shared, clock, heap, minted, req, resp, webio_session_id,
                   webio_session, popped, sent, history>>

\* mutant: the closed session stays in the session map
PopSession_Forgets(d, sid) == d

\* line 116: cls._webio_sessions.pop(sid, None)
PopSession(d, sid) == DictPop(d, sid)

\* mutant: the closed session stays in the activity index
PopExpire_Forgets(e, sid) == e

\* line 117: cls._webio_expire.pop(sid, None)
PopExpire(e, sid) == SeqRemove(e, sid)

RemoveSession(t) ==
    /\ pc[t] = "rm_session"
    /\ _webio_sessions' = PopSession(_webio_sessions, webio_session_id[t])
    /\ closedOut' = IF webio_session_id[t] \in SessionKeys
                    THEN closedOut \cup {webio_session_id[t]} ELSE closedOut
    /\ pc' = [pc EXCEPT ![t] = "rm_expire"]
    /\ UNCHANGED <<instance, scratch,
                   _webio_expire, _last_check_session_expire_ts, clock, heap, minted,
                   req, resp, webio_session_id, webio_session, popped, sent,
                   closeCalls, arrivedLate>>

RemoveExpire(t) ==
    /\ pc[t] = "rm_expire"
    /\ _webio_expire' = PopExpire(_webio_expire, webio_session_id[t])
    /\ pc' = [pc EXCEPT ![t] = "done"]
    /\ UNCHANGED <<instance, scratch,
                   _webio_sessions, _last_check_session_expire_ts, clock, heap, minted,
                   req, resp, webio_session_id, webio_session, popped, sent,
                   history>>

\* line 191 and after: the response is returned and sent; the handler's
\* frame is gone and session objects nobody refers to are freed
SendResponse(t) ==
    /\ pc[t] = "done"
    /\ pc' = [pc EXCEPT ![t] = "idle"]
    /\ req' = [req EXCEPT ![t] = NoRequest]
    /\ resp' = [resp EXCEPT ![t] = NoResponse]
    /\ webio_session_id' = [webio_session_id EXCEPT ![t] = None]
    /\ webio_session' = [webio_session EXCEPT ![t] = None]
    /\ popped' = [popped EXCEPT ![t] = << >>]
    /\ sent' = [sent EXCEPT ![t] = << >>]
    /\ heap' = Collect(heap, _webio_sessions, webio_session')
    /\ closeCalls' = closeCalls \cap DOMAIN heap'
    /\ arrivedLate' = [arrivedLate EXCEPT ![t] = FALSE]
    /\ UNCHANGED <<instance, scratch,
                   shared, clock, minted, closedOut>>

(* --------------------------- environment ------------------------------- *)
\* time passes
Tick ==
    /\ clock < MaxTime
    /\ clock' = clock + 1
    /\ UNCHANGED <<instance, shared, heap, minted, locals, history>>

\* the task of a session emits an output command
TaskEmit ==
    /\ \E h \in DOMAIN heap :
        /\ ~heap[h].closed
        /\ TotalPending(heap) < MaxCmds
        /\ heap' = [heap EXCEPT ![h].pending = @ + 1]
    /\ UNCHANGED <<instance, shared, clock, minted, locals, history>>

\* the task of a session finishes: closed() becomes true
TaskFinish ==
    /\ \E h \in DOMAIN heap :
        /\ ~heap[h].closed
        /\ heap' = [heap EXCEPT ![h].closed = TRUE]
    /\ UNCHANGED <<instance, shared, clock, minted, locals, history>>

(* ------------------------- specifications ------------------------------ *)
\* the steps of a request that has arrived
Progress(t) ==
    \/ Register(t)
    \/ Lookup(t)
    \/ Touch(t)
    \/ CheckInterval(t)
    \/ SetLastCheck(t)
    \/ SweepPop(t)
    \/ SweepRequeue(t)
    \/ SweepEvict(t)
    \/ Fetch(t)
    \/ CheckClosed(t)
    \/ RemoveSession(t)
    \/ RemoveExpire(t)
    \/ SendResponse(t)

\* requests handled one at a time: a single worker
Next ==
    \/ Dispatch(SerialWorker)
    \/ Progress(SerialWorker)
    \/ Tick
    \/ TaskEmit
    \/ TaskFinish

Spec == Init /\ [][Next]_vars

\* requests without a body whose test parameter, when given, has a value
Polls == {r \in Requests : r.body = "text" /\ r.test # ""}

DispatchPoll(t) == Serve(t, Polls)

\* polls of clients that have no session yet
DispatchNew(t) == Serve(t, {r \in Polls : NoSessionId(r)})

\* the handler's steps after dispatch while no session's task finishes
Handle(t) ==
    \/ Register(t) \/ Lookup(t) \/ Touch(t) \/ CheckInterval(t)
    \/ SetLastCheck(t) \/ SweepPop(t) \/ SweepRequeue(t) \/ SweepEvict(t)
    \/ Fetch(t) \/ CheckClosed(t) \/ SendResponse(t)

\* several handler threads serve requests at the same time (the framework
\* adaptors call handle_request from their worker threads)
NextThreaded ==
    \/ DispatchPoll(SerialWorker)
    \/ \E t \in Threads \ {SerialWorker} : DispatchNew(t)
    \/ \E t \in Threads : Handle(t)
    \/ Tick

SpecThreaded == Init /\ [][NextThreaded]_vars

\* plain polls: GET without body and without the test parameter
PlainPolls == {r \in Polls : r.method = "GET" /\ r.test = "None"}

DispatchPlain(t) == Serve(t, PlainPolls)

\* the handler's steps at the granularity of single reads and writes of the
\* shared maps
HandleRace(t) ==
    \/ Register(t) \/ Lookup(t) \/ TouchRead(t) \/ TouchWrite(t)
    \/ CheckInterval(t) \/ SetLastCheck(t)
    \/ SweepPop(t) \/ SweepRequeue(t) \/ SweepEvict(t)
    \/ Fetch(t) \/ CheckClosed(t) \/ RemoveSession(t) \/ RemoveExpire(t)
    \/ SendResponse(t)

\* several handler threads poll for new and for established sessions at the
\* same time; nothing serialises them (line 82: no lock)
NextRace ==
    \/ \E t \in Threads : DispatchPlain(t)
    \/ \E t \in Threads : HandleRace(t)
    \/ Tick

SpecRace == Init /\ [][NextRace]_vars

\* requests of browsers on any origin; no body, the test parameter unset or 1
CrossOrigin == {r \in CorsRequests : r.body = "text" /\ r.test # ""}

DispatchCors(t) == Serve(t, CrossOrigin)

\* one handler thread; no time passes and no session's task finishes
NextCors ==
    \/ DispatchCors(SerialWorker) \/ Register(SerialWorker) \/ Lookup(SerialWorker)
    \/ Touch(SerialWorker) \/ CheckInterval(SerialWorker) \/ SetLastCheck(SerialWorker)
    \/ SweepPop(SerialWorker) \/ SweepRequeue(SerialWorker) \/ Fetch(SerialWorker)
    \/ CheckClosed(SerialWorker) \/ SendResponse(SerialWorker)

SpecCors == InitCors /\ [][NextCors]_vars

\* a request for an established session arrives
DispatchEstablished(t) == Dispatch(t) /\ pc'[t] = "lookup"

\* a handler that has started runs to its return, time passes, and requests
\* for established sessions keep arriving while there are such sessions
SpecLive ==
    /\ Init /\ [][Next]_vars
    /\ WF_vars(Progress(SerialWorker))
    /\ WF_vars(Tick)
    /\ SF_vars(DispatchEstablished(SerialWorker))

(* ------------------------------ claims --------------------------------- *)
\* thread t receives a request in this step; req'[t] is the request
Arrives(t) == pc[t] = "idle" /\ pc'[t] # "idle"
\* no handler is inside handle_request
Quiescent == \A t \in Threads : pc[t] \in {"idle", "done"}

RegistryUnchanged ==
    UNCHANGED <<_webio_sessions, _webio_expire, _last_check_session_expire_ts>>

\* C1: a non-probe POST whose webio-session-id header is absent or empty is
\* answered with status 403 and leaves the session map, the activity index
\* and the last-swept timestamp unchanged; no session is constructed.
C1_CsrfGuard ==
    [][\A t \in Threads :
        (Arrives(t) /\ req'[t].method = "POST" /\ ~IsProbe(req'[t]) /\ NoSessionId(req'[t]))
        => (/\ pc'[t] = "done"
            /\ resp'[t].status = 403
            /\ RegistryUnchanged
            /\ UNCHANGED <<heap, minted>>)]_vars

C1_Witness ==
    \E t \in Threads :
        /\ pc[t] = "done"
        /\ req[t].method = "POST" /\ ~IsProbe(req[t]) /\ req[t].sid = Empty
        /\ resp[t].status = 403
        /\ SessionKeys # {}

\* C3: with requests handled one at a time, after every completed
\* handle_request the ids of _webio_sessions are the ids of _webio_expire.
C3_RegistryIndexConsistent == Quiescent => SessionKeys = ExpireKeys

C3_Witness ==
    \E t \in Threads :
        /\ pc[t] = "done"
        /\ webio_session_id[t] # None
        /\ minted = 2
        /\ Cardinality(SessionKeys) = 1
        /\ SessionKeys = ExpireKeys

Ordered(e) == \A i, j \in 1 .. Len(e) : i < j => e[i][2] <= e[j][2]

\* C4: with requests handled one at a time, _webio_expire read from the
\* least- to the most-recently-seen entry has non-decreasing timestamps, and
\* a touch leaves the touched id last with the time of the touch.
C4_ActivityOrder ==
    /\ []Ordered(_webio_expire)
    /\ [][\A t \in Threads :
            (pc[t] = "touch" /\ pc'[t] = "check")
            => _webio_expire'[Len(_webio_expire')] = <<webio_session_id[t], clock>>]_vars

\* the older session was touched again and moved behind the younger one
C4_Witness ==
    \E t \in Threads :
        /\ pc[t] = "check"
        /\ webio_session_id[t] = 1
        /\ Len(_webio_expire) = 2
        /\ _webio_expire[2][1] = 1
        /\ _webio_expire[1][2] < _webio_expire[2][2]

\* C7: a non-probe, non-OPTIONS request whose session id is non-empty and
\* not a key of the session map gets exactly [{command: close_session}] as
\* JSON and changes neither the session map, the index nor last-swept.
C7_UnknownSessionId ==
    [][\A t \in Threads :
        (/\ Arrives(t)
         /\ ~IsProbe(req'[t]) /\ req'[t].method # "OPTIONS"
         /\ ~NoSessionId(req'[t]) /\ req'[t].sid \notin SessionKeys)
        => (/\ pc'[t] = "done"
            /\ resp'[t] = [FreshResponse EXCEPT !.kind = "json", !.cmds = CloseSessionReply]
            /\ RegistryUnchanged
            /\ UNCHANGED <<heap, minted>>)]_vars

C7_Witness ==
    \E t \in Threads :
        /\ pc[t] = "done"
        /\ req[t].method = "PUT" /\ ~IsProbe(req[t])
        /\ req[t].sid \in Ids \ SessionKeys
        /\ resp[t].kind = "json" /\ resp[t].cmds = CloseSessionReply
        /\ SessionKeys # {}

\* C2: a request bearing the id of a registered session last touched at T
\* that arrives later than T + session_expire_seconds receives the
\* close_session reply, not the session's commands, and the id is absent from
\* the session map after the request, whether or not a sweep ran in between.
C2_ExpiredRequestClosed ==
    \A t \in Threads :
        (pc[t] = "done" /\ arrivedLate[t])
        => (/\ resp[t].cmds = CloseSessionReply
            /\ req[t].sid \notin SessionKeys)

\* the creating request has minted an id and built a session for it
CreationStarted(t) ==
    /\ pc'[t] = "register"
    /\ webio_session_id'[t] \notin SessionKeys
    /\ \A u \in Threads \ {t} : webio_session_id'[t] # webio_session_id[u]
    /\ resp'[t].sid = webio_session_id'[t]
    /\ webio_session'[t] \notin DOMAIN heap
    /\ webio_session'[t] \in DOMAIN heap'

\* the registration adds exactly the minted id and overwrites nothing
RegistersOne(t) ==
    (pc[t] = "register" /\ pc'[t] # "register")
    => (/\ webio_session_id[t] \notin SessionKeys
        /\ DOMAIN _webio_sessions' = SessionKeys \cup {webio_session_id[t]}
        /\ _webio_sessions'[webio_session_id[t]] = webio_session[t]
        /\ \A k \in SessionKeys : _webio_sessions'[k] = _webio_sessions[k])

\* C5 as stated: every non-probe, non-POST request without a session id
\* registers exactly one new session under a freshly minted id and never
\* overwrites the handle of a registered session.
C5_EveryNonPostCreates ==
    [][\A t \in Threads :
        /\ (Arrives(t) /\ ~IsProbe(req'[t]) /\ req'[t].method # "POST"
                /\ NoSessionId(req'[t]))
           => CreationStarted(t)
        /\ RegistersOne(t)]_vars

\* C5 amended: every non-probe request without a session id whose method is
\* neither POST nor OPTIONS registers exactly one new session under a freshly
\* minted id and never overwrites the handle of a registered session.
C5_DistinctIdsOnCreation ==
    [][\A t \in Threads :
        /\ (Arrives(t) /\ ~IsProbe(req'[t]) /\ req'[t].method \notin {"POST", "OPTIONS"}
                /\ NoSessionId(req'[t]))
           => CreationStarted(t)
        /\ RegistersOne(t)]_vars

\* two creation requests handled at the same time, one of them a PUT, have
\* both registered their sessions
C5_Witness ==
    /\ \A t \in Threads : pc[t] = "touch" /\ NoSessionId(req[t])
    /\ \E t \in Threads : req[t].method = "PUT"
    /\ \A t \in Threads : \A u \in Threads \ {t} :
            webio_session_id[t] # webio_session_id[u]
    /\ SessionKeys = {webio_session_id[t] : t \in Threads}
    /\ \A t \in Threads : _webio_sessions[webio_session_id[t]] = webio_session[t]
    /\ \A t \in Threads : \A u \in Threads \ {t} : webio_session[t] # webio_session[u]

\* the steps from the command fetch to the return of a request whose
\* session reports closed
ClosedRoundTrip(t) ==
    /\ (pc[t] = "fetch" /\ pc'[t] = "closed")
       => (/\ resp'[t].cmds = PendingCommands(heap[webio_session[t]])
           /\ heap'[webio_session[t]].pending = 0)
    /\ (pc[t] = "closed" /\ pc'[t] = "done") => ~heap[webio_session[t]].closed
    /\ pc[t] \in {"closed", "rm_session", "rm_expire"} => resp'[t] = resp[t]
    /\ (pc[t] = "rm_expire" /\ pc'[t] = "done")
       => (/\ webio_session_id[t] \notin DOMAIN _webio_sessions'
           /\ webio_session_id[t] \notin ExpireKeys')

ClosedReply(t) ==
    /\ pc'[t] = "done"
    /\ resp'[t] = [FreshResponse EXCEPT !.kind = "json", !.cmds = CloseSessionReply]

\* C6 as stated: the request that finds the session closed still carries the
\* fetched commands, the id has left the session map and the activity index
\* when it returns, and every later request bearing that id receives exactly
\* the close_session reply.
C6_EveryLaterRequestClosed ==
    [][\A t \in Threads :
        /\ ClosedRoundTrip(t)
        /\ (Arrives(t) /\ req'[t].sid \in closedOut) => ClosedReply(t)]_vars

\* C6 amended: ... and every later non-probe, non-OPTIONS request bearing
\* that id receives exactly the close_session reply.
C6_ClosedRoundTrip ==
    [][\A t \in Threads :
        /\ ClosedRoundTrip(t)
        /\ (Arrives(t) /\ req'[t].sid \in closedOut
                /\ ~IsProbe(req'[t]) /\ req'[t].method # "OPTIONS")
           => ClosedReply(t)]_vars

\* a later GET bearing the id of a session that was removed as closed
C6_Witness ==
    \E t \in Threads :
        /\ pc[t] = "done"
        /\ req[t].method = "GET" /\ ~IsProbe(req[t])
        /\ req[t].sid \in closedOut
        /\ resp[t].cmds = CloseSessionReply
        /\ req[t].sid \notin SessionKeys \cup ExpireKeys

\* the request is answered at once and nothing of the class state changes
\* while it is answered and returned
AnsweredAside(t) ==
    /\ pc'[t] = "done"
    /\ RegistryUnchanged
    /\ heap' = heap

\* C8 as stated: requests with the test parameter present (any session id,
\* any method) and OPTIONS requests leave the session map, the activity index
\* and the last-swept timestamp unchanged; the probe answers the body ok and
\* the preflight answers status 204.
C8_EveryProbeAnswersOk ==
    [][\A t \in Threads :
        /\ (Arrives(t) /\ req'[t].test # "None")
           => (AnsweredAside(t) /\ resp'[t].kind = "text" /\ resp'[t].text = "ok")
        /\ (Arrives(t) /\ req'[t].method = "OPTIONS")
           => (AnsweredAside(t) /\ resp'[t].status = 204)
        /\ (pc[t] = "done" /\ pc'[t] = "idle") => RegistryUnchanged]_vars

\* C8 amended: requests with a non-empty test parameter and a method other
\* than OPTIONS answer the body ok, OPTIONS requests answer status 204 with
\* no body, and both leave the session map, the activity index (including
\* the timestamp of an id they carry) and the last-swept timestamp unchanged.
C8_TerminalRequestsSideEffectFree ==
    [][\A t \in Threads :
        /\ (Arrives(t) /\ IsProbe(req'[t]) /\ req'[t].method # "OPTIONS")
           => (/\ AnsweredAside(t)
               /\ resp'[t] = [FreshResponse EXCEPT !.kind = "text", !.text = "ok"])
        /\ (Arrives(t) /\ req'[t].method = "OPTIONS")
           => (/\ AnsweredAside(t)
               /\ resp'[t] = [FreshResponse EXCEPT !.status = 204])
        /\ (pc[t] = "done" /\ pc'[t] = "idle") => RegistryUnchanged]_vars

\* a POST probe bearing the id of a session that has been idle for a while
\* has been answered ok and the session's timestamp is still the old one
C8_Witness ==
    \E t \in Threads :
        /\ pc[t] = "done"
        /\ IsProbe(req[t]) /\ req[t].method = "POST"
        /\ req[t].sid \in SessionKeys \cap ExpireKeys
        /\ ExpireTs(_webio_expire, req[t].sid) < clock
        /\ resp[t].text = "ok"

\* the session object h was registered and is no longer in the session map
Departed(h) ==
    /\ h \in DOMAIN heap
    /\ \A k \in SessionKeys : _webio_sessions[k] # h
    /\ \A t \in Threads : ~(pc[t] = "register" /\ webio_session[t] = h)

IdleExpired(s) ==
    /\ s \in SessionKeys \cap ExpireKeys
    /\ clock - ExpireTs(_webio_expire, s) >= session_expire_seconds
    /\ _last_check_session_expire_ts + session_cleanup_interval < MaxTime

\* session s has been closed and removed from both structures
TornDown(s) ==
    /\ s \notin SessionKeys \cup ExpireKeys
    /\ s \in DOMAIN heap => heap[s].closed

\* a request for session s is being handled
Requested(s) == \E t \in Threads : pc[t] # "idle" /\ webio_session_id[t] = s

\* no sweep is under way
NotSweeping == \A t \in Threads : pc[t] \notin {"sweep", "requeue", "evict"}

\* C10: while time passes and requests for established sessions keep
\* arriving, a registered session whose idle time has reached
\* session_expire_seconds and that receives no further request is eventually
\* closed and removed from the session map and the activity index; no sweep
\* that started once the idle time had reached session_expire_seconds leaves
\* the session in the index.
C10_IdleSessionsTornDown ==
    /\ \A s \in Ids : IdleExpired(s) ~> (TornDown(s) \/ Requested(s))
    /\ [](NotSweeping =>
            \A i \in 1 .. Len(_webio_expire) :
                _last_check_session_expire_ts - _webio_expire[i][2]
                    < session_expire_seconds)

\* a request for another session has run the sweep, which closed and
\* removed an idle session
C10_Witness ==
    \E t \in Threads : \E h \in closeCalls :
        /\ pc[t] = "fetch"
        /\ webio_session_id[t] # h
        /\ req[t].sid = webio_session_id[t]
        /\ _last_check_session_expire_ts = clock
        /\ TornDown(h)

\* the configured policy: the predicate when one is supplied, otherwise a
\* match against at least one pattern; with neither, nothing is accepted
PolicyAccepts(o) ==
    \/ check_origin # "None" /\ CallPredicate(check_origin, o)
    \/ check_origin = "None"
         /\ \E i \in 1 .. Len(allowed_origins) : fnmatch(o, allowed_origins[i])

\* the response carries Access-Control-Allow-Origin: o exactly when the
\* policy accepts o, and no such header otherwise
AllowOriginIff(rsp, o) ==
    /\ PolicyAccepts(o) => rsp.allow = <<o>>
    /\ ~PolicyAccepts(o) => rsp.allow = << >>

\* the handler does not touch the header after the CORS processing
AllowOriginKept(t) ==
    (pc[t] # "idle" /\ pc'[t] # "idle") => resp'[t].allow = resp[t].allow

\* C11 as stated: every request carrying an Origin header (preflight
\* included) is answered with Access-Control-Allow-Origin equal to that
\* origin if and only if the configured policy accepts the origin.
C11_EveryOriginHeaderJudged ==
    [][\A t \in Threads :
        /\ (Arrives(t) /\ req'[t].origin # << >>)
           => AllowOriginIff(resp'[t], req'[t].origin[1])
        /\ AllowOriginKept(t)]_vars

\* C11 amended: every request carrying a non-empty Origin header, and every
\* preflight (a missing Origin header counting as the empty origin), is
\* answered with Access-Control-Allow-Origin equal to that origin if and
\* only if the configured policy accepts it; a request other than a
\* preflight whose Origin header is missing or empty gets no such header.
C11_CorsHeaderCorrect ==
    [][\A t \in Threads :
        /\ (Arrives(t) /\ (req'[t].method = "OPTIONS"
                             \/ (req'[t].origin # << >> /\ req'[t].origin[1] # << >>)))
           => AllowOriginIff(resp'[t], OriginOrEmpty(req'[t]))
        /\ (Arrives(t) /\ req'[t].method # "OPTIONS"
                /\ (req'[t].origin = << >> \/ req'[t].origin[1] = << >>))
           => resp'[t].allow = << >>
        /\ AllowOriginKept(t)]_vars

\* without a predicate, the pattern a? has admitted the origin ab of a GET
\* that created a session, and the header is on the response to be sent
C11_Witness ==
    \E t \in Threads :
        /\ pc[t] = "done"
        /\ check_origin = "None"
        /\ allowed_origins = << <<"a", "?">> >>
        /\ req[t].method = "GET" /\ NoSessionId(req[t])
        /\ req[t].origin = << <<"a", "b">> >>
        /\ resp[t].allow = << <<"a", "b">> >>
        /\ resp[t].sid \in SessionKeys

\* r and q are the same request but for the Origin header, which the policy
\* accepts for one and rejects for the other
OriginTwins(r, q) ==
    /\ q = [r EXCEPT !.origin = q.origin]
    /\ r.origin # << >> /\ q.origin # << >>
    /\ PolicyAccepts(r.origin[1]) # PolicyAccepts(q.origin[1])

HeadersAside(rsp) == [rsp EXCEPT !.allow = << >>]

\* C20: two requests that differ only in an accepted and a rejected Origin,
\* handled from the same state, take the same branch and get the same
\* status, body and session id, and the step leaves the session map, the
\* activity index and the last-swept timestamp as the other would; a GET
\* without a session id from a rejected origin creates a session and
\* returns its id.
C20_OriginAffectsHeadersOnly ==
    [][\A t \in Threads :
        /\ Arrives(t) =>
             \A q \in CrossOrigin :
                OriginTwins(req'[t], q)
                => (/\ pc'[t] = EntryPoint(Classify(q, SessionKeys))
                    /\ HeadersAside(resp'[t])
                         = HeadersAside(Respond(q, Classify(q, SessionKeys)))
                    /\ RegistryUnchanged)
        /\ (Arrives(t) /\ req'[t].method = "GET" /\ ~IsProbe(req'[t])
                /\ NoSessionId(req'[t])
                /\ req'[t].origin # << >> /\ ~PolicyAccepts(req'[t].origin[1]))
           => (/\ pc'[t] = "register"
               /\ resp'[t].status = 200
               /\ resp'[t].sid = webio_session_id'[t]
               /\ resp'[t].allow = << >>)]_vars

\* a GET from the rejected origin b has created and registered a session
\* and is answered with its id and commands, without the allow-origin header
C20_Witness ==
    \E t \in Threads :
        /\ pc[t] = "done"
        /\ req[t].method = "GET" /\ NoSessionId(req[t]) /\ ~IsProbe(req[t])
        /\ req[t].origin = << <<"b">> >>
        /\ allowed_origins = << <<"a">> >>
        /\ ~PolicyAccepts(<<"b">>) /\ PolicyAccepts(<<"a">>)
        /\ resp[t].allow = << >>
        /\ resp[t].status = 200 /\ resp[t].kind = "json"
        /\ resp[t].sid \in SessionKeys \cap ExpireKeys

InSweep(t) == pc[t] \in {"sweep", "requeue", "evict"}

\* one iteration of the sweeper's loop, taken by thread t
SweepStep(t) ==
    \* the loop ends on an empty index
    /\ (pc[t] = "sweep" /\ pc'[t] # "sweep" /\ _webio_expire = << >>)
       => (pc'[t] = "fetch" /\ _webio_expire' = << >>)
    \* an entry is taken out for eviction only if it is idle for the limit
    /\ (pc[t] = "sweep" /\ pc'[t] = "evict")
       => (/\ clock - Head(_webio_expire)[2] >= session_expire_seconds
           /\ _webio_expire' = Tail(_webio_expire)
           /\ popped'[t] = Head(_webio_expire))
    \* the eviction closes the handle and removes the id from the session map
    /\ (pc[t] = "evict" /\ pc'[t] # "evict")
       => (/\ pc'[t] = "sweep"
           /\ popped[t][1] \notin DOMAIN _webio_sessions'
           /\ popped[t][1] \notin ExpireKeys'
           /\ popped[t][1] \in SessionKeys
                => (/\ _webio_sessions[popped[t][1]] \in closeCalls'
                    /\ heap'[_webio_sessions[popped[t][1]]].closed)
           /\ \A k \in SessionKeys \ {popped[t][1]} :
                k \in DOMAIN _webio_sessions' /\ _webio_sessions'[k] = _webio_sessions[k]
           /\ _webio_expire' = _webio_expire)
    \* the scan stops at the first fresh entry; every entry left is fresh
    /\ (pc[t] = "sweep" /\ pc'[t] = "requeue")
       => (/\ \A i \in 1 .. Len(_webio_expire) :
                clock - _webio_expire[i][2] < session_expire_seconds
           /\ popped'[t] = Head(_webio_expire)
           /\ UNCHANGED _webio_sessions)
    \* and it is put back where it was: timestamps and order as before the pop
    /\ (pc[t] = "requeue" /\ pc'[t] # "requeue")
       => (/\ pc'[t] = "fetch"
           /\ _webio_expire' = <<popped[t]>> \o _webio_expire
           /\ UNCHANGED _webio_sessions)

\* C14: run on a timestamp-ordered index with no other handler interfering,
\* _remove_expired_sessions terminates; it removes from both structures, and
\* closes, exactly the entries idle for session_expire_seconds or longer and
\* leaves the fresh entries with their timestamps and order, the first fresh
\* entry being requeued at the least-recently-seen position.
C14_SweepResult ==
    /\ [][\A t \in Threads : SweepStep(t)]_vars
    /\ [](\A t \in Threads : InSweep(t) => Ordered(_webio_expire))
    /\ \A t \in Threads : InSweep(t) ~> pc[t] = "fetch"

\* a sweep has evicted the idle session 1 and requeued the fresh session 2
C14_Witness ==
    \E t \in Threads :
        /\ pc[t] = "fetch"
        /\ popped[t] = << >>
        /\ _last_check_session_expire_ts = clock
        /\ 1 \in closeCalls /\ heap[1].closed
        /\ SessionKeys = {2}
        /\ _webio_expire = << <<2, clock>> >>

\* thread t is between the decision to sweep and the end of the sweep
Sweeping(t) == pc[t] = "setlast" \/ InSweep(t)

\* the request of thread t has its session, registered and just touched,
\* and has not fetched the commands yet
HoldsTouchedSession(t) ==
    /\ ~IsProbe(req[t]) /\ req[t].method # "OPTIONS"
    /\ ~(req[t].method = "POST" /\ NoSessionId(req[t]))
    /\ webio_session_id[t] # None
    /\ NoSessionId(req[t]) \/ req[t].sid = webio_session_id[t]
    /\ resp[t].kind = "empty" /\ resp[t].status = 200

\* C15: a sweep runs during a request only if the request has reached its
\* session (after the touch, before the command fetch) and now - last_swept
\* > session_cleanup_interval; last-swept is set to now when the sweep
\* starts, so with requests handled one at a time consecutive sweeps are
\* more than session_cleanup_interval apart; requests ending in the
\* preflight, probe, 403 or close_session branch never sweep.
C15_SweepTrigger ==
    /\ [](\A t \in Threads : Sweeping(t) => HoldsTouchedSession(t))
    /\ [][\A t \in Threads :
            \* the decision is taken right after the touch
            /\ pc'[t] = "setlast" /\ pc[t] # "setlast"
               => (/\ pc[t] = "check"
                   /\ clock - _last_check_session_expire_ts > session_cleanup_interval
                   /\ _webio_expire[Len(_webio_expire)][1] = webio_session_id[t])
            /\ (pc[t] = "check" /\ pc'[t] = "fetch")
               => (/\ clock - _last_check_session_expire_ts <= session_cleanup_interval
                   /\ RegistryUnchanged)
            \* the sweep starts by setting last-swept to now
            /\ pc'[t] = "sweep" /\ pc[t] \notin {"sweep", "evict"}
               => (/\ pc[t] = "setlast"
                   /\ _last_check_session_expire_ts' = clock
                   /\ _last_check_session_expire_ts' - _last_check_session_expire_ts
                        > session_cleanup_interval)
            \* a request answered on arrival is returned without a sweep
            /\ Arrives(t) => ~Sweeping(t)'
            /\ pc[t] = "done" => ~Sweeping(t)']_vars
    /\ [][_last_check_session_expire_ts' # _last_check_session_expire_ts
            => \E t \in Threads : pc[t] = "setlast" /\ pc'[t] = "sweep"]_vars

\* a POST for one of two established sessions starts a sweep at the last
\* instant of the clock (the first request of all has swept before)
C15_Witness ==
    \E t \in Threads :
        /\ pc[t] = "sweep"
        /\ req[t].method = "POST" /\ req[t].sid \in Ids
        /\ popped[t] = << >>
        /\ _last_check_session_expire_ts = clock
        /\ clock = MaxTime
        /\ Len(_webio_expire) = 2

\* the body of r is JSON
Decodes(r) == r.body # "text"

\* what is delivered and fetched on the request of thread t, given the
\* events due for it
DeliveredThenFetched(t, due) ==
    \* the only delivery is the one of lines 173-176
    /\ sent'[t] # sent[t] /\ pc'[t] # "idle"
       => (/\ pc[t] = "touch" /\ pc'[t] = "check"
           /\ sent[t] = << >>
           /\ resp[t].kind = "empty")
    \* delivered or not, the session is touched
    /\ (pc[t] = "touch" /\ pc'[t] # "touch")
       => (/\ sent'[t] = due
           /\ pc'[t] = "check"
           /\ webio_session_id[t] \in ExpireKeys'
           /\ ExpireTs(_webio_expire', webio_session_id[t]) = clock)
    \* and the pending commands are fetched
    /\ (pc[t] = "fetch" /\ pc'[t] # "fetch")
       => (/\ sent[t] = due
           /\ resp'[t].cmds = PendingCommands(heap[webio_session[t]])
           /\ resp'[t].kind = "json" /\ resp'[t].status = 200)

\* the request of thread t, for an established session, is answered
Answered(t) == pc[t] = "done" /\ ~NoSessionId(req[t]) /\ webio_session_id[t] # None

\* C17 as stated: on a request for an established session send_client_event
\* is called if and only if the method is POST and the body decodes as JSON,
\* then exactly once with the decoded payload and before get_task_commands;
\* in every case the session is touched and its pending commands are
\* fetched and returned with status 200.
C17_EveryDecodedBodyDelivered ==
    [][\A t \in Threads :
        DeliveredThenFetched(t,
            IF req[t].method = "POST" /\ Decodes(req[t])
            THEN <<req[t].body>> ELSE << >>)]_vars

\* the rule as the code has it: a POST whose body decodes to a value other
\* than null
EventsDue(r) ==
    IF r.method = "POST" /\ Decodes(r) /\ r.body # "null" THEN <<r.body>> ELSE << >>

\* C17 amended: on a request for an established session send_client_event
\* is called if and only if the method is POST and the body decodes as JSON
\* to a value other than null, then exactly once with the decoded payload and
\* before get_task_commands; on any other request no event is delivered; in
\* every case the session is touched and its pending commands are fetched
\* and returned with status 200.
C17_EventDelivery ==
    /\ [][\A t \in Threads : DeliveredThenFetched(t, EventsDue(req[t]))]_vars
    /\ [](\A t \in Threads :
            Answered(t) => (/\ sent[t] = EventsDue(req[t])
                            /\ resp[t].status = 200 /\ resp[t].kind = "json"))

\* a POST with a decodable body has delivered its event and carries the
\* command that was pending
C17_Witness ==
    \E t \in Threads :
        /\ pc[t] = "done"
        /\ req[t].method = "POST" /\ req[t].body = "click" /\ req[t].sid \in Ids
        /\ sent[t] = <<"click">>
        /\ resp[t].status = 200 /\ resp[t].cmds = <<Command>>

\* the request of thread t bore the id of an established session and its
\* method is none of OPTIONS, GET and POST
Unclassified(t) ==
    /\ pc[t] = "done"
    /\ req[t].method \notin {"OPTIONS", "GET", "POST"}
    /\ ~NoSessionId(req[t])
    /\ webio_session_id[t] = req[t].sid

\* C18: a request bearing the id of an established session whose method is
\* none of OPTIONS, GET and POST is answered with status 500 and does not
\* return the session's pending commands as a normal response.
C18_UnclassifiedMethodFails ==
    \A t \in Threads :
        Unclassified(t) => (resp[t].status = 500 /\ resp[t].kind # "json")

\* C12: with handle_request calls interleaved at the granularity of single
\* reads and writes of the shared maps, every state in which no request is in
\* flight has the same ids in _webio_sessions and in _webio_expire.
C12_ConsistentUnderConcurrency ==
    (\A t \in Threads : pc[t] \in {"idle", "done"})
    => (/\ \A sid \in SessionKeys : sid \in ExpireKeys
        /\ \A sid \in ExpireKeys : sid \in SessionKeys)

\* thread t has read the clock for its touch and not yet written the index
TouchHalfDone(t) == pc[t] = "touch_w"

\* C13: when handlers touch sessions concurrently, each reading the clock
\* and then writing the index as two steps, the activity index is ordered by
\* non-decreasing timestamp in every state where no touch is half done.
C13_ConcurrentTouchesOrdered ==
    (\A t \in Threads : ~TouchHalfDone(t)) => Ordered(_webio_expire)

\* thread t has found the interval elapsed and is about to run the sweep
AboutToSweep(t) == pc[t] = "setlast" /\ judged[t] # << >>

\* C16: when two threads evaluate now - last_swept > session_cleanup_interval
\* for the same elapsed interval (the same value of last_swept), at most one
\* of them goes on to run _remove_expired_sessions.
C16_NoDoubleSweep ==
    \A t, u \in Threads :
        (t # u /\ AboutToSweep(t) /\ AboutToSweep(u)) => judged[t] # judged[u]

\* thread t, sweeping, puts the fresh entry it popped back in this step
Requeues(t) == pc[t] = "requeue" /\ pc'[t] # "requeue"

\* C19: while a sweeper is interleaved with a handler touching the same
\* session, a timestamp written for the session into the activity index is
\* kept or replaced by a later one for as long as the session stays
\* registered: the sweeper's requeue of the fresh entry it popped never
\* replaces a newer timestamp by the older one it read.
C19_TouchNeverLost ==
    [][\A t \in Threads :
        Requeues(t)
        => \A sid \in (SessionKeys \cap SessionKeys') \cap (ExpireKeys \cap ExpireKeys') :
              ExpireTs(_webio_expire', sid) >= ExpireTs(_webio_expire, sid)]_vars
====
